---- MODULE Spec2Model ----
(***************************************************************************)
(* Model of python-log-read-send.py: a tail loop that reads the lines      *)
(* appended to a log file, forwards them over a socket and persists the    *)
(* read offset in a JSON state file keyed by "<absolute path>:<inode>".    *)
(*                                                                         *)
(* Text is a sequence of Unicode code points, file contents and wire data  *)
(* are sequences of bytes.                                                 *)
(***************************************************************************)
EXTENDS Integers, Sequences, FiniteSets, TLC

\* ------------------------------------------------------------------ bounds
\* Number of things the surroundings do to the program: write() calls of the
\* log writer, renames of the log file away from its path, socket errors,
\* kills of the process.
MaxEvents == 3
\* Number of sockets the process creates.
MaxSockets == 2

\* --------------------------------------------------------- configuration
POLLING_INTERVAL == 2

\* os.path.abspath(LOG_FILE_PATH), as code points ("/wh.log" stands for the
\* configured absolute path).
LOG_FILE_PATH == <<47, 119, 104, 46, 108, 111, 103>>

\* Inode numbers the filesystem hands out (it reuses freed ones).
Inodes == 1..2

\* ---------------------------------------------------------- pure helpers
\* str.strip() removes these from both ends.
Whitespace == {9, 10, 11, 12, 13, 32}

\* What one write() of the log writer appends (bytes, UTF-8):
\*   " hello \n" (a padded line), " \n" (a line blank after trimming),
\*   "h\xc3\xa9llo w\xc3\xb6rld" (13 bytes, 11 characters: the start of a line
\*   whose terminator is not yet written).
Chunks ==
    { <<32, 104, 101, 108, 108, 111, 32, 10>>,
      <<32, 10>>,
      <<104, 195, 169, 108, 108, 111, 32, 119, 195, 182, 114, 108, 100>> }

\* str.encode('utf-8') of one code point (below U+0800).
EncodeChar(c) ==
    IF c < 128 THEN <<c>> ELSE <<192 + (c \div 64), 128 + (c % 64)>>

\* str.encode('utf-8')
RECURSIVE Encode(_)
Encode(s) ==
    IF s = <<>> THEN <<>> ELSE EncodeChar(Head(s)) \o Encode(Tail(s))

\* Whether the text layer of open(..., 'r') can decode these bytes; it
\* raises UnicodeDecodeError otherwise.
RECURSIVE Decodable(_)
Decodable(b) ==
    IF b = <<>> THEN TRUE
    ELSE IF b[1] < 128 THEN Decodable(Tail(b))
    ELSE IF b[1] >= 192 /\ Len(b) >= 2 /\ b[2] \in 128..191
         THEN Decodable(Tail(Tail(b)))
    ELSE FALSE

\* The text layer's decoding of decodable bytes.
RECURSIVE Decode(_)
Decode(b) ==
    IF b = <<>> THEN <<>>
    ELSE IF b[1] < 128 THEN <<b[1]>> \o Decode(Tail(b))
    ELSE <<(b[1] - 192) * 64 + (b[2] - 128)>> \o Decode(Tail(Tail(b)))

\* f.readlines(): the text cut after each "\n"; a last piece without a
\* terminator is returned as a line too.
RECURSIVE Readlines(_)
Readlines(t) ==
    IF t = <<>> THEN <<>>
    ELSE IF \E k \in 1..Len(t) : t[k] = 10
         THEN LET k == CHOOSE k \in 1..Len(t) :
                           t[k] = 10 /\ \A j \in 1..(k - 1) : t[j] # 10
              IN <<SubSeq(t, 1, k)>> \o Readlines(SubSeq(t, k + 1, Len(t)))
    ELSE <<t>>

RECURSIVE LStrip(_)
LStrip(s) ==
    IF s # <<>> /\ Head(s) \in Whitespace THEN LStrip(Tail(s)) ELSE s

RECURSIVE RStrip(_)
RStrip(s) ==
    IF s # <<>> /\ s[Len(s)] \in Whitespace
    THEN RStrip(SubSeq(s, 1, Len(s) - 1))
    ELSE s

\* A strip that removes line terminators only.
StripNewlines(s) ==
    IF s # <<>> /\ s[Len(s)] = 10 THEN SubSeq(s, 1, Len(s) - 1) ELSE s

\* message.strip()
Strip(s) == RStrip(LStrip(s))

\* str(n) of a non-negative integer, as code points.
RECURSIVE Str(_)
Str(n) ==
    IF n < 10 THEN <<48 + n>> ELSE Str(n \div 10) \o <<48 + (n % 10)>>

\* f"{abs_path}:{inode}"
Key(abs_path, inode) == abs_path \o <<58>> \o Str(inode)

\* A frame whose prefix counts characters instead of bytes.
FrameCountingChars(message, proto) ==
    IF proto = "UDP"
    THEN Encode(message)
    ELSE Encode(Str(Len(message)) \o <<32>> \o message)

\* The bytes send_log_message hands to the socket for a non-empty message.
Frame(message, proto) ==
    IF proto = "UDP"
    THEN Encode(message)
    ELSE Encode(Str(Len(Encode(message))) \o <<32>> \o message)

\* ---------------------------------------------------------------- state
VARIABLES
    files,        \* every file ever at the path: [ino, data, live]
    path,         \* index in files of the file now at LOG_FILE_PATH, 0: none
    store,        \* the document at STATE_FILE_PATH
    protocol,     \* PROTOCOL
    pc,           \* where main() is: the statement it executes next
    sock,         \* main's variable sock: index in socks, 0: unbound
    socks,        \* every socket created: "open", "connected", or "closed"
                  \* once the program closed it or the process ended
    last_pos,     \* main's last_pos
    f,            \* the file object of the with block: index in files
    new_logs,     \* main's new_logs
    current_pos,  \* main's current_pos
    line,         \* index in new_logs of the line the for loop is at
    state,        \* update_last_position's state while it writes
    slept,        \* argument of the last time.sleep call, 0: none yet
    wire,         \* every buffer a socket accepted, in order: data, and the
                  \* file and byte offset its line was read from
    nAppends,     \* write() calls of the log writer so far
    nErrors,      \* socket errors raised so far
    nMoves,       \* times the log file was renamed away so far
    nKills,       \* times the process was killed so far
    failed,       \* history: the batch a socket error interrupted, until the
                  \* file is read again: [fid, pos], or None
    stop          \* history: where the last kill hit the process ("sleep",
                  \* "dump", or "busy" for anywhere else) and how many
                  \* messages had been forwarded: [at, sent], or None

vars == <<files, path, store, protocol, pc, sock, socks, last_pos, f, new_logs,
          current_pos, line, state, slept, wire, nAppends, nErrors, nMoves,
          nKills, failed, stop>>

None == [none |-> TRUE]

envVars == <<files, path, nAppends, nMoves>>
faults == <<nErrors, nMoves, nKills>>
Events == nAppends + nErrors + nMoves + nKills
locals == <<last_pos, f, new_logs, current_pos, line, state>>

\* The state document: absent, not JSON ("garbage": also an empty or
\* half-written file), JSON that is no object ("list"), or a JSON object.
NoDoc == [kind |-> "missing"]
Garbage == [kind |-> "garbage"]
ListDoc == [kind |-> "list"]
MapDoc(m) == [kind |-> "map", m |-> m]
EmptyMap == [k \in {} |-> 0]

\* A set that writes a document holding the one key only.
AssignAlone(m, k, v) == [x \in {k} |-> v]

\* state[key] = offset
Assign(m, k, v) == [x \in (DOMAIN m) \cup {k} |-> IF x = k THEN v ELSE m[x]]

Init ==
    /\ files = << [ino |-> 1, data |-> <<>>, live |-> TRUE] >>
    /\ path = 1
    /\ store \in {NoDoc, ListDoc}
    /\ protocol \in {"TCP", "UDP"}
    /\ pc = "create"
    /\ sock = 0
    /\ socks = <<>>
    /\ last_pos = 0
    /\ f = 0
    /\ new_logs = <<>>
    /\ current_pos = 0
    /\ line = 0
    /\ state = EmptyMap
    /\ slept = 0
    /\ wire = <<>>
    /\ nAppends = 0
    /\ nErrors = 0
    /\ nMoves = 0
    /\ nKills = 0
    /\ failed = None
    /\ stop = None

\* ------------------------------------------------------------ environment
\* The log writer appends one chunk to the file at the path.
AppendChunk ==
    /\ path # 0
    /\ Events < MaxEvents
    /\ \E c \in Chunks :
          files' = [files EXCEPT ![path].data = @ \o c]
    /\ nAppends' = nAppends + 1
    /\ UNCHANGED <<path, store, protocol, pc, sock, socks, locals, slept, wire,
                   faults>>
    /\ UNCHANGED <<failed, stop>>

\* The file at the path is renamed away (first half of a rotation); it
\* keeps its inode and its content.
MoveAway ==
    /\ path # 0
    /\ Events < MaxEvents
    /\ path' = 0
    /\ nMoves' = nMoves + 1
    /\ UNCHANGED <<files, store, protocol, pc, sock, socks, locals, slept, wire,
                   nAppends, nErrors, nKills>>
    /\ UNCHANGED <<failed, stop>>

\* A file that was renamed away is renamed back: the same identity
\* reappears at the path.
MoveBack ==
    /\ path = 0
    /\ \E n \in 1..Len(files) :
          /\ files[n].live
          /\ path' = n
    /\ UNCHANGED <<files, store, protocol, pc, sock, socks, locals, slept, wire,
                   nAppends, faults>>
    /\ UNCHANGED <<failed, stop>>

\* The file main holds open: inside the with block, from open() to the
\* end of update_last_position.
HeldOpen == IF pc \in {"send", "update", "dump"} THEN f ELSE 0

\* A new, empty file is created at the path (second half of a rotation).
\* The filesystem gives it any inode no other file holds; an older rotated
\* file holding that inode has been deleted before, which frees the inode
\* only when no process holds the file open.
CreateFile ==
    /\ path = 0
    /\ \E i \in Inodes :
          /\ HeldOpen # 0 => files[HeldOpen].ino # i
          /\ files' = [n \in 1..Len(files) |->
                          IF files[n].ino = i
                          THEN [files[n] EXCEPT !.live = FALSE]
                          ELSE files[n]]
                      \o << [ino |-> i, data |-> <<>>, live |-> TRUE] >>
    /\ path' = Len(files) + 1
    /\ UNCHANGED <<store, protocol, pc, sock, socks, locals, slept, wire,
                   nAppends, faults>>
    /\ UNCHANGED <<failed, stop>>

\* ----------------------------------------------------- get_last_position
\* The path's inode as os.stat sees it now (only called when path # 0).
StatIno == files[path].ino

\* state.get(key, 0) on the loaded document; the except clause returns 0
\* for a missing file or invalid JSON.
StoredOffset(doc, key) ==
    IF doc.kind = "map" /\ key \in DOMAIN doc.m THEN doc.m[key] ELSE 0

\* get_last_position's result; os.stat's FileNotFoundError is caught by the
\* same except clause as the state file's.
GetLastPosition ==
    IF path = 0 THEN 0 ELSE StoredOffset(store, Key(LOG_FILE_PATH, StatIno))

\* Whether get_last_position raises: state.get on a JSON value that is no
\* object is an AttributeError, which nothing catches.
GetRaises == path # 0 /\ store.kind = "list"

\* ------------------------------------------------------------- the reader
\* The bytes of the opened file from the seek position on.
BytesFrom(data, pos) ==
    IF pos >= Len(data) THEN <<>> ELSE SubSeq(data, pos + 1, Len(data))

\* f.tell() after readlines(): the end of the file, or the seek position
\* when that is beyond it.
Tell(data, pos) == IF pos > Len(data) THEN pos ELSE Len(data)

\* Byte offset in the file of the line the for loop is at.
RECURSIVE ByteLen(_)
ByteLen(ls) ==
    IF ls = <<>> THEN 0 ELSE Len(Encode(Head(ls))) + ByteLen(Tail(ls))

LineOffset == last_pos + ByteLen(SubSeq(new_logs, 1, line - 1))

\* ------------------------------------------------------------------ main
AllClosed == [n \in 1..Len(socks) |-> "closed"]

\* The locals of a poll cycle. Once a cycle has ended they are dead (each
\* is assigned again before it is read next), and the model forgets them.
cycle == <<last_pos, new_logs, current_pos, line, state>>

ForgetCycle ==
    /\ last_pos' = 0
    /\ new_logs' = <<>>
    /\ current_pos' = 0
    /\ line' = 0
    /\ state' = EmptyMap

\* An exception no except clause of main catches: the process ends, the
\* system closes its sockets.
Crash ==
    /\ pc' = "crashed"
    /\ socks' = AllClosed
    /\ slept' = slept
    /\ ForgetCycle

\* A handler that sleeps and retries without closing the socket.
SocketErrorHandlerNoClose(s, ss) ==
    /\ socks' = ss
    /\ slept' = POLLING_INTERVAL
    /\ pc' = "create"
    /\ ForgetCycle

\* except socket.error: sock.close(), time.sleep(POLLING_INTERVAL), and the
\* outer loop starts over. s is what sock names when the handler runs, ss
\* the sockets then. With sock never bound, sock.close() is an
\* UnboundLocalError.
SocketErrorHandler(s, ss) ==
    IF s = 0
    THEN Crash
    ELSE /\ socks' = [ss EXCEPT ![s] = "closed"]
         /\ slept' = POLLING_INTERVAL
         /\ pc' = "create"
         /\ ForgetCycle

\* except FileNotFoundError: time.sleep(POLLING_INTERVAL), and the outer
\* loop starts over, at the creation of a socket.
FileNotFoundHandler ==
    /\ socks' = socks
    /\ slept' = POLLING_INTERVAL
    /\ pc' = "create"
    /\ ForgetCycle

\* sock = socket.socket(...) and, for TCP, sock.connect(...). The name is
\* rebound after the new socket exists: a socket it held before stays as
\* it is, the program does not close it (see Finalize). When socket()
\* raises, sock still names the socket of the round before; when connect()
\* raises, it names the new one.
CreateSocket ==
    /\ pc = "create"
    /\ \/ /\ Events < MaxEvents
          /\ nErrors' = nErrors + 1
          /\ SocketErrorHandler(sock, socks)
          /\ sock' = sock
       \/ /\ Len(socks) < MaxSockets
          /\ sock' = Len(socks) + 1
          /\ socks' = Append(socks, IF protocol = "TCP" THEN "connected"
                                                       ELSE "open")
          /\ pc' = "getpos"
          /\ UNCHANGED <<nErrors, slept, cycle>>
       \/ /\ protocol = "TCP"
          /\ Len(socks) < MaxSockets
          /\ Events < MaxEvents
          /\ nErrors' = nErrors + 1
          /\ sock' = Len(socks) + 1
          /\ SocketErrorHandler(Len(socks) + 1, Append(socks, "open"))
    /\ UNCHANGED <<envVars, store, protocol, f, wire, nKills, failed, stop>>

\* A socket that sock no longer names is unreachable, and the Python
\* runtime closes an unreachable socket when it collects it: at a moment
\* the language does not fix, after the rebinding of sock at the earliest.
Finalize ==
    /\ \E n \in 1..Len(socks) :
          /\ n # sock
          /\ socks[n] # "closed"
          /\ socks' = [socks EXCEPT ![n] = "closed"]
    /\ UNCHANGED <<envVars, store, protocol, pc, sock, locals, slept, wire,
                   faults, failed, stop>>

\* last_pos = get_last_position(LOG_FILE_PATH, STATE_FILE_PATH)
GetPos ==
    /\ pc = "getpos"
    /\ IF GetRaises
       THEN Crash
       ELSE /\ last_pos' = GetLastPosition
            /\ pc' = "open"
            /\ UNCHANGED <<socks, slept, new_logs, current_pos, line, state>>
    /\ UNCHANGED <<envVars, store, protocol, sock, f, wire, nErrors, nKills,
                   failed, stop>>

\* if new_logs: an empty batch skips the for loop and update_last_position.
AfterRead(logs) == IF logs # <<>> THEN "send" ELSE "sleep"

\* with open(LOG_FILE_PATH, 'r') as f: seek, readlines, tell.
OpenAndRead ==
    /\ pc = "open"
    /\ IF path = 0
       THEN FileNotFoundHandler /\ UNCHANGED <<f, failed>>
       ELSE LET bytes == BytesFrom(files[path].data, last_pos)
            IN IF ~Decodable(bytes)
               THEN Crash /\ UNCHANGED <<f, failed>>
               ELSE /\ f' = path
                    /\ new_logs' = Readlines(Decode(bytes))
                    /\ current_pos' = Tell(files[path].data, last_pos)
                    /\ line' = IF new_logs' # <<>> THEN 1 ELSE 0
                    /\ pc' = AfterRead(new_logs')
                    /\ failed' = None
                    /\ UNCHANGED <<socks, slept, last_pos, state>>
    /\ UNCHANGED <<envVars, store, protocol, sock, wire, nErrors, nKills, stop>>

\* Where the for loop goes after a line: the next line, or
\* update_last_position after the last one.
AfterLine ==
    IF line < Len(new_logs)
    THEN line' = line + 1 /\ pc' = "send"
    ELSE line' = line /\ pc' = "update"

\* send_log_message(sock, line, PROTOCOL) for the line the loop is at: a
\* message empty after strip() is skipped; sendto/sendall succeeds or
\* raises socket.error, which send_log_message raises again.
SendLine ==
    /\ pc = "send"
    /\ LET message == Strip(new_logs[line])
       IN \/ /\ message = <<>>
             /\ AfterLine
             /\ UNCHANGED <<wire, nErrors, failed, socks, slept, last_pos,
                            new_logs, current_pos, state>>
          \/ /\ message # <<>>
             /\ wire' = Append(wire, [data |-> Frame(message, protocol),
                                      fid |-> f,
                                      off |-> LineOffset])
             /\ AfterLine
             /\ UNCHANGED <<nErrors, failed, socks, slept, last_pos, new_logs,
                            current_pos, state>>
          \/ /\ message # <<>>
             /\ Events < MaxEvents
             /\ nErrors' = nErrors + 1
             /\ failed' = [fid |-> f, pos |-> last_pos]
             /\ SocketErrorHandler(sock, socks)
             /\ UNCHANGED wire
    /\ UNCHANGED <<envVars, store, protocol, sock, f, nKills, stop>>

\* update_last_position up to open(state_file, 'w'), which empties the
\* document. os.stat is outside any try: a missing log file raises
\* FileNotFoundError into main. state[key] = offset on a JSON value that
\* is no object is a TypeError.
UpdateLoad ==
    /\ pc = "update"
    /\ IF path = 0
       THEN FileNotFoundHandler /\ UNCHANGED store
       ELSE IF store.kind = "list"
       THEN Crash /\ UNCHANGED store
       ELSE /\ state' = Assign(IF store.kind = "map" THEN store.m ELSE EmptyMap,
                               Key(LOG_FILE_PATH, StatIno), current_pos)
            /\ store' = Garbage
            /\ pc' = "dump"
            /\ UNCHANGED <<socks, slept, last_pos, new_logs, current_pos, line>>
    /\ UNCHANGED <<envVars, protocol, sock, f, wire, nErrors, nKills, failed,
                   stop>>

\* json.dump(state, f) and the close of the state file; then
\* last_pos = current_pos in main.
UpdateDump ==
    /\ pc = "dump"
    /\ store' = MapDoc(state)
    /\ last_pos' = current_pos
    /\ pc' = "sleep"
    /\ UNCHANGED <<envVars, protocol, sock, socks, f, new_logs, current_pos,
                   line, state, slept, wire, nErrors, nKills, failed, stop>>

\* time.sleep(POLLING_INTERVAL) at the end of a poll cycle.
PollSleep ==
    /\ pc = "sleep"
    /\ slept' = POLLING_INTERVAL
    /\ pc' = "getpos"
    /\ ForgetCycle
    /\ UNCHANGED <<envVars, store, protocol, sock, socks, f, wire, nErrors,
                   nKills, failed, stop>>

\* The process is killed from outside and the script is started again:
\* the system closes the sockets, the memory of the process is gone, main
\* starts from its first line.
Restart ==
    /\ pc # "crashed"
    /\ Events < MaxEvents
    /\ nKills' = nKills + 1
    /\ stop' = [at |-> IF pc \in {"sleep", "dump"} THEN pc ELSE "busy",
                 sent |-> Len(wire)]
    /\ pc' = "create"
    /\ socks' = AllClosed
    /\ sock' = 0
    /\ f' = 0
    /\ slept' = 0
    /\ ForgetCycle
    /\ UNCHANGED <<envVars, store, protocol, wire, nErrors, failed>>

Next ==
    \/ AppendChunk
    \/ MoveAway
    \/ MoveBack
    \/ CreateFile
    \/ CreateSocket
    \/ Finalize
    \/ GetPos
    \/ OpenAndRead
    \/ SendLine
    \/ UpdateLoad
    \/ UpdateDump
    \/ PollSleep
    \/ Restart

Spec == Init /\ [][Next]_vars

TypeOK ==
    /\ pc \in {"create", "getpos", "open", "send", "update", "dump", "sleep",
               "crashed"}
    /\ path \in 0..Len(files)
    /\ sock \in 0..Len(socks)
    /\ Len(files) <= MaxEvents + 1
    /\ Len(socks) <= MaxSockets
    /\ store.kind \in {"missing", "garbage", "list", "map"}

\* ================================================================ claims
\* What the claims speak about, stated on the bytes of the files and of the
\* wire, without the reader's and the sender's own operators.

Min(S) == CHOOSE x \in S : \A y \in S : x <= y
Max(S) == CHOOSE x \in S : \A y \in S : x >= y

\* Bytes without the whitespace at both ends.
Trimmed(b) ==
    LET ink == {i \in 1..Len(b) : b[i] \notin Whitespace}
    IN IF ink = {} THEN <<>> ELSE SubSeq(b, Min(ink), Max(ink))

\* Offsets at which a line of the file begins.
LineStarts(data) ==
    {o \in 0..(Len(data) - 1) : o = 0 \/ data[o] = 10}

\* The bytes of the line that begins at offset o, terminator included.
LineAt(data, o) ==
    LET ends == {e \in (o + 1)..Len(data) : data[e] = 10}
    IN SubSeq(data, o + 1, IF ends = {} THEN Len(data) ELSE Min(ends))

\* Offsets of the lines that are not empty after trimming.
TextLines(data) == {o \in LineStarts(data) : Trimmed(LineAt(data, o)) # <<>>}

\* The message a buffer on the wire carries: all of a datagram, the part
\* after the first space of a TCP buffer.
Payload(buf) ==
    IF protocol = "UDP" THEN buf
    ELSE LET sp == {i \in 1..Len(buf) : buf[i] = 32}
         IN IF sp = {} THEN <<>> ELSE SubSeq(buf, Min(sp) + 1, Len(buf))

\* The offset the state document holds for file n.
PersistedFor(n) ==
    LET key == LOG_FILE_PATH \o <<58>> \o Str(files[n].ino)
    IN IF store.kind = "map" /\ key \in DOMAIN store.m THEN store.m[key] ELSE 0

\* A poll cycle has ended with everything in the file at the path read.
CaughtUp ==
    /\ pc = "sleep"
    /\ path # 0
    /\ PersistedFor(path) = Len(files[path].data)

\* The k-th message on the wire is the k-th text line of file n.
InFileOrder(n) ==
    \A k \in 1..Len(wire) :
       /\ wire[k].fid = n
       /\ wire[k].off \in TextLines(files[n].data)
       /\ Cardinality({o \in TextLines(files[n].data) : o < wire[k].off}) = k - 1
       /\ Payload(wire[k].data) = Trimmed(LineAt(files[n].data, wire[k].off))

\* Every text line of file n has been forwarded.
Forwarded(n) ==
    \A o \in TextLines(files[n].data) :
       \E k \in 1..Len(wire) : wire[k].fid = n /\ wire[k].off = o

\* C1: while nothing fails (no socket error, no kill, no rename of the log
\* file), the messages forwarded are the non-empty trimmed lines of the
\* file, in file order, each once; and when a poll cycle has caught up with
\* the file, all of them have been forwarded.
C1_ForwardedEqualsAppended ==
    (nErrors = 0 /\ nMoves = 0 /\ nKills = 0)
    => /\ InFileOrder(1)
       /\ CaughtUp => Len(wire) = Cardinality(TextLines(files[1].data))

\* C2: no appended line is lost, also across rotations: once the tail loop
\* has caught up with the file at the path, every non-empty line appended to
\* a file while it was at the path has been forwarded at least once; this
\* already for the files the loop has forwarded a line of.
C2_NoLineLost ==
    CaughtUp =>
       \A n \in 1..Len(files) :
          (\E k \in 1..Len(wire) : wire[k].fid = n) => Forwarded(n)

\* C3: when a send raises a socket error at some line of a batch, the state
\* document is left as it is and the offset it holds for the file read is
\* the one the batch was read from; and the next read of the log file is of
\* that file at that offset, with a batch to send, so the whole batch is
\* sent again from its first line.
C3_FailedBatchRetried ==
    [][ /\ (pc = "send" /\ pc' = "create" /\ nKills' = nKills)
              => (store' = store /\ PersistedFor(f) = last_pos)
        /\ (pc = "open" /\ pc' \in {"send", "sleep"} /\ failed # None)
              => /\ f' = failed.fid
                 /\ last_pos = failed.pos
                 /\ pc' = "send" ]_vars

\* C4: when the process was killed during the sleep that ends a poll cycle
\* and is started again, its first poll seeks to the offset persisted for
\* the file at the path, no line forwarded before the kill is forwarded
\* again, and once the loop has caught up every line of the file at the path
\* has been forwarded.
C4_ResumeAfterStop ==
    (stop # None /\ stop.at = "sleep")
    => /\ (pc = "open" /\ f = 0 /\ path # 0) => last_pos = PersistedFor(path)
       /\ \A i \in 1..stop.sent :
             \A j \in (stop.sent + 1)..Len(wire) :
                wire[i].fid # wire[j].fid \/ wire[i].off # wire[j].off
       /\ CaughtUp => Forwarded(path)

\* C5: rotation. When the file a poll opens is a new file (created after
\* the file the poll before it read) with another inode, the poll reads it
\* from offset 0; and a write of the store leaves the offsets of all keys
\* but that of the file at the path as they were.
C5_RotationStartsAtZero ==
    [][ /\ (pc = "open" /\ pc' \in {"send", "sleep"} /\ f # 0 /\ f' > f
               /\ files[f'].ino # files[f].ino)
              => last_pos = 0
        /\ (pc = "update" /\ pc' = "dump" /\ store.kind = "map")
              => \A k \in DOMAIN store.m :
                    k # Key(LOG_FILE_PATH, files[path].ino)
                       => k \in DOMAIN state' /\ state'[k] = store.m[k] ]_vars

\* C6: get_last_position never raises because of the state document: with a
\* document that is missing or is no key-to-integer mapping it returns 0 (the
\* poll goes on to open the file at offset 0), and the next
\* update_last_position writes a mapping.
C6_MalformedStoreReadsZero ==
    [][ /\ (pc = "getpos" /\ store.kind # "map" /\ pc' # pc /\ nKills' = nKills)
              => (pc' = "open" /\ last_pos' = 0)
        /\ (pc = "update" /\ path # 0 /\ store.kind # "map" /\ pc' # pc
               /\ nKills' = nKills)
              => pc' = "dump"
        /\ (pc = "dump" /\ pc' = "sleep") => store'.kind = "map" ]_vars

\* C7: when the log file is absent at open or at identity resolution, the
\* loop waits one polling interval and goes back to polling with the socket
\* it had: the socket is not closed, and no socket is created while the one
\* sock names is not closed.
C7_FileMissingKeepsTransport ==
    [][ /\ (pc \in {"open", "update"} /\ path = 0 /\ pc' # pc
               /\ nKills' = nKills)
              => /\ slept' = POLLING_INTERVAL
                 /\ pc' = "getpos"
                 /\ sock' = sock
                 /\ socks' = socks
        /\ (sock # 0 /\ socks[sock] # "closed")
              => Len(socks') = Len(socks) ]_vars

\* C8: when a send or a connect raises a socket error, the handler closes
\* the socket that failed, sleeps POLLING_INTERVAL and goes back to the
\* creation of a socket; and whenever a line is about to be sent, sock names
\* a socket that has not failed and is not closed.
C8_TransportRecovery ==
    [][ /\ (pc = "send" /\ nErrors' > nErrors)
              => /\ socks'[sock] = "closed"
                 /\ slept' = POLLING_INTERVAL
                 /\ pc' = "create"
        /\ (pc = "create" /\ nErrors' > nErrors /\ Len(socks') > Len(socks))
              => /\ sock' = Len(socks')
                 /\ socks'[sock'] = "closed"
                 /\ slept' = POLLING_INTERVAL
                 /\ pc' = "create"
        /\ pc = "send"
              => /\ sock # 0
                 /\ socks[sock] = IF protocol = "TCP" THEN "connected"
                                                       ELSE "open" ]_vars

\* After a socket error a line is about to be sent on the socket created
\* next, the failed one being closed.
C8_Witness ==
    /\ nErrors > 0
    /\ pc = "send"
    /\ sock = 2
    /\ socks[1] = "closed"

\* C9: the tail loop has no terminal state: whatever errors occurred, the
\* process is still running.
C9_NoTerminalState == pc # "crashed"

\* The number a string of decimal digits denotes.
RECURSIVE DecValue(_)
DecValue(d) ==
    IF d = <<>> THEN 0 ELSE 10 * DecValue(SubSeq(d, 1, Len(d) - 1)) + (d[Len(d)] - 48)

\* "<N> <message>": decimal digits without a leading zero, one space, and N
\* bytes after it.
OctetCounted(buf) ==
    LET sp == {i \in 1..Len(buf) : buf[i] = 32}
    IN /\ sp # {}
       /\ Min(sp) > 1
       /\ \A i \in 1..(Min(sp) - 1) : buf[i] \in 48..57
       /\ Min(sp) > 2 => buf[1] # 48
       /\ DecValue(SubSeq(buf, 1, Min(sp) - 1)) = Len(buf) - Min(sp)

\* C10: every buffer handed to a socket carries one line of the file,
\* trimmed and not empty: the line read is the bytes of the file at the
\* offset it was read at, with no newline before its end. A datagram is exactly these bytes; a TCP
\* buffer is "<N> <line>" with N their number in decimal ("hello" gives
\* "5 hello").
C10_WireFraming ==
    [][ Len(wire') > Len(wire) =>
          LET buf == wire'[Len(wire')].data
              data == files[f].data
              o == wire'[Len(wire')].off
              raw == Encode(new_logs[line])
              msg == Payload(buf)
          IN /\ Len(wire') = Len(wire) + 1
             /\ wire'[Len(wire')].fid = f
             /\ msg # <<>>
             /\ o + Len(raw) <= Len(data)
             /\ SubSeq(data, o + 1, o + Len(raw)) = raw
             /\ \A i \in 1..(Len(raw) - 1) : raw[i] # 10
             /\ msg = Trimmed(raw)
             /\ protocol = "UDP" => buf = msg
             /\ protocol = "TCP" => OctetCounted(buf)
             /\ (protocol = "TCP" /\ msg = <<104, 101, 108, 108, 111>>)
                   => buf = <<53, 32, 104, 101, 108, 108, 111>> ]_vars

\* "5 hello" and the 13-byte, 11-character line have been sent over TCP.
C10_Witness ==
    /\ protocol = "TCP"
    /\ \E k \in 1..Len(wire) : wire[k].data = <<53, 32, 104, 101, 108, 108, 111>>
    /\ \E k \in 1..Len(wire) :
          wire[k].data = <<49, 51, 32, 104, 195, 169, 108, 108, 111, 32, 119,
                           195, 182, 114, 108, 100>>

\* C11: a line that is empty after trimming is never forwarded:
\* send_log_message on it puts nothing on a socket, raises no error and
\* leaves the sockets alone, the loop goes on to the next line or, after the
\* last one, to update_last_position; nothing is ever sent for such a line;
\* and the offset the cycle writes is past every line of the batch.
C11_BlankLineSkipped ==
    [][ /\ (pc = "send" /\ Trimmed(Encode(new_logs[line])) = <<>>
               /\ nKills' = nKills /\ (pc' # pc \/ line' # line))
              => /\ wire' = wire
                 /\ nErrors' = nErrors
                 /\ socks' = socks
                 /\ IF line < Len(new_logs)
                    THEN pc' = "send" /\ line' = line + 1
                    ELSE pc' = "update"
        /\ Len(wire') > Len(wire)
              => /\ pc = "send"
                 /\ Trimmed(Encode(new_logs[line])) # <<>>
        /\ (pc = "dump" /\ pc' = "sleep")
              => /\ store'.kind = "map"
                 /\ \E k \in DOMAIN store'.m :
                       /\ store'.m[k] = current_pos
                       /\ current_pos >= last_pos + ByteLen(new_logs) ]_vars

\* A file that holds one blank line only has been polled: nothing was sent
\* and offset 2, past the line, is persisted.
C11_Witness ==
    /\ pc = "sleep"
    /\ path = 1
    /\ files[1].data = <<32, 10>>
    /\ wire = <<>>
    /\ PersistedFor(1) = 2

\* C12: a poll that opens a file with no bytes after the offset the state
\* document holds for it sends nothing and writes nothing: the read goes
\* straight to the sleep with the wire and the state document as they were;
\* and neither get_last_position, nor the read, nor the sleep ever changes
\* the document.
C12_EmptyPollLeavesStore ==
    [][ /\ (pc = "open" /\ path # 0
               /\ PersistedFor(path) >= Len(files[path].data)
               /\ pc' # pc /\ nKills' = nKills)
              => /\ pc' = "sleep"
                 /\ new_logs' = <<>>
                 /\ wire' = wire
                 /\ store' = store
        /\ (pc \in {"getpos", "open", "sleep"} /\ nKills' = nKills)
              => (store' = store /\ wire' = wire) ]_vars

\* Paths and inodes whose texts run into each other when put side by side:
\* "/wh.log", "/wh.log1", "/wh.log:", "/wh.log:1"; 1, 2, 11, 12.
SamplePaths ==
    { LOG_FILE_PATH, LOG_FILE_PATH \o <<49>>, LOG_FILE_PATH \o <<58>>,
      LOG_FILE_PATH \o <<58, 49>> }
SampleInodes == {1, 2, 11, 12}

\* Different identities have different keys.
KeysDiffer ==
    \A p1, p2 \in SamplePaths : \A i1, i2 \in SampleInodes :
       (p1 # p2 \/ i1 # i2) => Key(p1, i1) # Key(p2, i2)

\* C13: identities that differ in path or in inode have different keys
\* "<path>:<inode>"; and update_last_position on a document that is a
\* mapping writes a mapping that holds the offset for the key of the file
\* at the path and, for every other key, the entry the document had.
C13_StoreIndependence ==
    [][ /\ (pc = "update" /\ pc' = "dump")
              => /\ KeysDiffer
                 /\ store.kind = "map"
                       => LET key == LOG_FILE_PATH \o <<58>>
                                        \o Str(files[path].ino)
                          IN /\ DOMAIN state' = DOMAIN store.m \cup {key}
                             /\ state'[key] = current_pos
                             /\ \A k \in DOMAIN store.m :
                                   k # key => state'[k] = store.m[k]
        /\ (pc = "dump" /\ pc' = "sleep")
              => store' = [kind |-> "map", m |-> state] ]_vars

\* The document holds an entry for each of two files, the second written
\* after the first.
C13_Witness ==
    /\ pc = "sleep"
    /\ store.kind = "map"
    /\ Cardinality(DOMAIN store.m) = 2
    /\ \A k \in DOMAIN store.m : store.m[k] > 0

\* C14: the offset the state document holds for a file that exists is
\* never beyond the end of that file (no file is ever truncated: contents
\* only grow).
C14_OffsetWithinFile ==
    \A n \in 1..Len(files) :
       files[n].live => PersistedFor(n) <= Len(files[n].data)

\* C15: a store write made by a poll cycle never lowers an offset: the
\* mapping update_last_position is about to dump holds, for every key
\* the state document held before, a value greater than or equal to the
\* old one, and the dump writes exactly that mapping.
C15_OffsetNeverDecreases ==
    [][ /\ (pc = "update" /\ pc' = "dump" /\ store.kind = "map")
              => \A k \in DOMAIN store.m :
                    k \in DOMAIN state' /\ state'[k] >= store.m[k]
        /\ (pc = "dump" /\ pc' = "sleep") => store' = MapDoc(state) ]_vars

\* C16: the reader yields only complete lines: every line a poll reads
\* ends with its terminator, the offset the poll will persist lies right
\* after a terminator of the file (never inside an unfinished line), and
\* a message is only ever sent for a terminated line.
C16_OnlyCompleteLines ==
    [][ /\ (pc = "open" /\ pc' = "send")
              => /\ \A i \in 1..Len(new_logs') :
                       new_logs'[i][Len(new_logs'[i])] = 10
                 /\ files[path].data[current_pos'] = 10
        /\ Len(wire') > Len(wire)
              => new_logs[line][Len(new_logs[line])] = 10 ]_vars

\* The documents that can be the complete old mapping when new is the
\* mapping a set is writing: new differs from the old one in the one key
\* set assigns; no document at all is the empty old mapping.
OldOrNew(doc, new) ==
    \/ doc = MapDoc(new)
    \/ /\ doc.kind = "map"
       /\ \E k \in DOMAIN new :
             /\ DOMAIN doc.m \in {DOMAIN new, DOMAIN new \ {k}}
             /\ \A j \in DOMAIN doc.m : j # k => doc.m[j] = new[j]
    \/ doc.kind = "missing" /\ Cardinality(DOMAIN new) = 1

\* C17: set is atomic: when the process is killed while
\* update_last_position is writing the state file, the document left
\* behind is the complete old mapping or the complete new mapping.
C17_SetIsAtomic ==
    [][ (pc = "dump" /\ nKills' = nKills + 1)
           => OldOrNew(store', state) ]_vars

\* C18: the offset a poll cycle persists is stored under the identity of
\* the file the cycle read (the file it holds open), and under no other
\* key: every other key of the mapping it dumps keeps the offset the state
\* document held for it.
C18_OneIdentityPerCycle ==
    [][ (pc = "update" /\ pc' = "dump")
           => LET read == Key(LOG_FILE_PATH, files[f].ino)
              IN /\ read \in DOMAIN state'
                 /\ state'[read] = current_pos
                 /\ \A k \in DOMAIN state' \ {read} :
                       state'[k] = StoredOffset(store, k) ]_vars

\* The sockets the process has created and not closed.
OpenSockets == {n \in 1..Len(socks) : socks[n] # "closed"}

\* C19: at most one socket is open at any time: when a socket is
\* created, every socket created earlier has been closed.
C19_AtMostOneSocketOpen ==
    Cardinality(OpenSockets) <= 1

\* C20: the starting offset of a poll is never defaulted to 0 for a file
\* the state document holds an offset for: a poll that reads lines from
\* the file at the path has started at an offset greater than 0 when a
\* positive offset is stored for that file, also when the file was absent
\* while get_last_position resolved the identity and is back before the
\* open.
C20_NoSilentDefaultToZero ==
    [][ (pc = "open" /\ pc' = "send" /\ PersistedFor(path) > 0)
           => last_pos > 0 ]_vars

====
